---------------------------- MODULE Spec2Model ----------------------------
(***************************************************************************)
(* A model of src/MQTT.py: the AdvancedMQTTManager facade over a paho MQTT *)
(* client (connect-result handler, message handler, publish, get_messages) *)
(* and the driver simulate_advanced_sensor_network.                        *)
(*                                                                         *)
(* Threads: one transport thread runs the handlers one at a time; the      *)
(* driver thread runs simulate_advanced_sensor_network; application        *)
(* threads call publish and get_messages.  Python lists are objects with   *)
(* identity: `heap` maps a list object to its contents, and the store and  *)
(* the callers hold references to list objects.                            *)
(***************************************************************************)
EXTENDS Integers, Sequences, FiniteSets, TLC

(***************************************************************************)
(* Python values.  Every value is a record of the same shape: a type tag   *)
(* t, scalar content s (the characters of a str, the digits of a number)   *)
(* and children e (the items of a list or tuple, or key1, value1, key2,    *)
(* value2, ... of a dict in insertion order).                              *)
(***************************************************************************)
PyVal(t, s, e) ==
    [t |-> t, s |-> s, e |-> e]

PyStr(cs) ==
    PyVal("str", cs, <<>>)

PyInt(ds) ==
    PyVal("int", ds, <<>>)

PyFloat(ds) ==
    PyVal("float", ds, <<>>)

PyList(es) ==
    PyVal("list", <<>>, es)

PyTuple(es) ==
    PyVal("tuple", <<>>, es)

PySet(es) ==
    PyVal("set", <<>>, es)

PyDict(kvs) ==
    PyVal("dict", <<>>, kvs)

PyConst(name) ==
    PyVal(name, <<>>, <<>>)

PyNone ==
    PyConst("None")

(***************************************************************************)
(* Characters are one-character strings ("U+00B0" stands for the degree    *)
(* sign); bytes are numbers.  CodePoints lists the characters of the model *)
(* with their Unicode code points.                                         *)
(***************************************************************************)
CodePoints ==
    << <<" ", 32>>, <<"\"", 34>>, <<"#", 35>>, <<",", 44>>, <<".", 46>>,
       <<"/", 47>>, <<"0", 48>>, <<"1", 49>>, <<"2", 50>>, <<"3", 51>>,
       <<"4", 52>>, <<"5", 53>>, <<"6", 54>>, <<"7", 55>>, <<"8", 56>>,
       <<"9", 57>>, <<":", 58>>, <<"C", 67>>, <<"[", 91>>, <<"\\", 92>>,
       <<"]", 93>>, <<"_", 95>>, <<"a", 97>>, <<"b", 98>>, <<"c", 99>>,
       <<"d", 100>>, <<"e", 101>>, <<"f", 102>>, <<"g", 103>>,
       <<"h", 104>>, <<"i", 105>>, <<"j", 106>>, <<"k", 107>>,
       <<"l", 108>>, <<"m", 109>>, <<"n", 110>>, <<"o", 111>>,
       <<"p", 112>>, <<"q", 113>>, <<"r", 114>>, <<"s", 115>>,
       <<"t", 116>>, <<"u", 117>>, <<"v", 118>>, <<"w", 119>>,
       <<"x", 120>>, <<"y", 121>>, <<"z", 122>>, <<"{", 123>>,
       <<"}", 125>>, <<"U+00B0", 176>>, <<"U+00C2", 194>> >>

Ord(c) ==
    LET i == CHOOSE k \in 1..Len(CodePoints) : CodePoints[k][1] = c
    IN  CodePoints[i][2]

HasChr(n) ==
    \E k \in 1..Len(CodePoints) : CodePoints[k][2] = n

Chr(n) ==
    LET i == CHOOSE k \in 1..Len(CodePoints) : CodePoints[k][2] = n
    IN  CodePoints[i][1]

Digits ==
    {"0", "1", "2", "3", "4", "5", "6", "7", "8", "9"}

\* The hexadecimal digits json.dumps writes, by value + 1.
Hex ==
    <<"0", "1", "2", "3", "4", "5", "6", "7", "8", "9",
      "a", "b", "c", "d", "e", "f">>

HexValue(c) ==
    (CHOOSE k \in 1..Len(Hex) : Hex[k] = c) - 1

IsHex(c) ==
    \E k \in 1..Len(Hex) : Hex[k] = c

(***************************************************************************)
(* str.encode('utf-8') and bytes.decode('utf-8') on the model's            *)
(* characters: a code point below 128 is one byte, one from 128 to 2047 is *)
(* two bytes (U+00B0 is 0xC2 0xB0).  Decoding raises UnicodeDecodeError on *)
(* any other byte.                                                         *)
(***************************************************************************)
\* Per character two places: its first byte, and its second byte or -1.
Utf8Encode(cs) ==
    LET byte(j) ==
            LET n == Ord(cs[(j + 1) \div 2])
            IN  IF j % 2 = 1
                THEN (IF n < 128 THEN n ELSE 192 + (n \div 64))
                ELSE (IF n < 128 THEN -1 ELSE 128 + (n % 64))
    IN  SelectSeq([j \in 1..(2 * Len(cs)) |-> byte(j)], LAMBDA x : x >= 0)

IsContinuation(x) ==
    x \in 128..191

IsLead(x) ==
    x \in 194..223

\* The code point of the character that starts at byte i.
CodeAt(bs, i) ==
    IF bs[i] < 128 THEN bs[i] ELSE (bs[i] - 192) * 64 + (bs[i + 1] - 128)

\* Byte i is a whole character, the first byte of one that is complete, or
\* the second byte of one that was begun.
Utf8ValidAt(bs, i) ==
    IF IsContinuation(bs[i]) THEN i > 1 /\ IsLead(bs[i - 1])
    ELSE /\ i = 1 \/ ~IsLead(bs[i - 1])
         /\ \/ bs[i] < 128
            \/ IsLead(bs[i]) /\ i < Len(bs) /\ IsContinuation(bs[i + 1])
         /\ HasChr(CodeAt(bs, i))

Utf8Decode(bs) ==
    LET ok == \A i \in 1..Len(bs) : Utf8ValidAt(bs, i)
        starts == SelectSeq([i \in 1..Len(bs) |-> i],
                            LAMBDA i : ~IsContinuation(bs[i]))
    IN  IF ok
        THEN [ok |-> TRUE,
              text |-> [k \in 1..Len(starts) |-> Chr(CodeAt(bs, starts[k]))]]
        ELSE [ok |-> FALSE, text |-> <<>>]

(***************************************************************************)
(* json.dumps with its defaults (ensure_ascii, separators ", " and ": ").  *)
(* The result is [ok, text]; ok is FALSE where json.dumps raises           *)
(* TypeError (a set, a tuple as a key).                                    *)
(***************************************************************************)
\* The escape \uXXXX of a character outside ASCII.
HexEscape(c) ==
    LET n == Ord(c)
    IN  <<"\\", "u", Hex[((n \div 4096) % 16) + 1], Hex[((n \div 256) % 16) + 1],
          Hex[((n \div 16) % 16) + 1], Hex[(n % 16) + 1]>>

RECURSIVE JsonEscape(_)
JsonEscape(cs) ==
    IF cs = <<>> THEN <<>>
    ELSE (CASE Head(cs) = "\"" -> <<"\\", "\"">>
            [] Head(cs) = "\\" -> <<"\\", "\\">>
            [] Ord(Head(cs)) >= 128 -> HexEscape(Head(cs))
            [] OTHER -> <<Head(cs)>>)
         \o JsonEscape(Tail(cs))

JsonQuote(cs) ==
    <<"\"">> \o JsonEscape(cs) \o <<"\"">>

JsonFail ==
    [ok |-> FALSE, text |-> <<>>]

JsonKey(k) ==
    CASE k.t = "str" -> [ok |-> TRUE, text |-> JsonQuote(k.s)]
      [] k.t \in {"int", "float"} -> [ok |-> TRUE, text |-> JsonQuote(k.s)]
      [] k.t = "True" -> [ok |-> TRUE, text |-> JsonQuote(<<"t", "r", "u", "e">>)]
      [] k.t = "False" -> [ok |-> TRUE, text |-> JsonQuote(<<"f", "a", "l", "s", "e">>)]
      [] k.t = "None" -> [ok |-> TRUE, text |-> JsonQuote(<<"n", "u", "l", "l">>)]
      [] OTHER -> JsonFail

RECURSIVE JsonDumps(_)
RECURSIVE JsonDumpsItems(_, _)
RECURSIVE JsonDumpsMembers(_, _)
JsonDumps(v) ==
    CASE v.t = "str" -> [ok |-> TRUE, text |-> JsonQuote(v.s)]
      [] v.t \in {"int", "float"} -> [ok |-> TRUE, text |-> v.s]
      [] v.t = "True" -> [ok |-> TRUE, text |-> <<"t", "r", "u", "e">>]
      [] v.t = "False" -> [ok |-> TRUE, text |-> <<"f", "a", "l", "s", "e">>]
      [] v.t = "None" -> [ok |-> TRUE, text |-> <<"n", "u", "l", "l">>]
      [] v.t \in {"list", "tuple"} ->
            LET r == JsonDumpsItems(v.e, 1)
            IN  [ok |-> r.ok, text |-> <<"[">> \o r.text \o <<"]">>]
      [] v.t = "dict" ->
            LET r == JsonDumpsMembers(v.e, 1)
            IN  [ok |-> r.ok, text |-> <<"{">> \o r.text \o <<"}">>]
      [] OTHER -> JsonFail

JsonDumpsItems(es, i) ==
    IF i > Len(es) THEN [ok |-> TRUE, text |-> <<>>]
    ELSE LET h == JsonDumps(es[i])
             r == JsonDumpsItems(es, i + 1)
         IN  [ok |-> h.ok /\ r.ok,
              text |-> (IF i > 1 THEN <<",", " ">> ELSE <<>>) \o h.text \o r.text]

JsonDumpsMembers(kvs, i) ==
    IF i > Len(kvs) THEN [ok |-> TRUE, text |-> <<>>]
    ELSE LET k == JsonKey(kvs[i])
             h == JsonDumps(kvs[i + 1])
             r == JsonDumpsMembers(kvs, i + 2)
         IN  [ok |-> k.ok /\ h.ok /\ r.ok,
              text |-> (IF i > 1 THEN <<",", " ">> ELSE <<>>)
                       \o k.text \o <<":", " ">> \o h.text \o r.text]

(***************************************************************************)
(* json.loads: a recursive-descent reading of the text from position i.    *)
(* Each step answers [ok, v, i]: whether it read a value, the value, and   *)
(* the position after it.  ok is FALSE where json.loads raises             *)
(* JSONDecodeError.                                                        *)
(***************************************************************************)
ParseFail ==
    [ok |-> FALSE, v |-> PyNone, i |-> 0]

RECURSIVE SkipWs(_, _)
SkipWs(tx, i) ==
    IF i <= Len(tx) /\ tx[i] = " " THEN SkipWs(tx, i + 1) ELSE i

StartsWith(tx, i, w) ==
    /\ i + Len(w) - 1 <= Len(tx)
    /\ \A k \in 1..Len(w) : tx[i + k - 1] = w[k]

\* The code point written by the four hexadecimal digits at i.
HexCode(tx, i) ==
    HexValue(tx[i]) * 4096 + HexValue(tx[i + 1]) * 256
        + HexValue(tx[i + 2]) * 16 + HexValue(tx[i + 3])

\* The characters of a string literal whose opening quote is before i.
RECURSIVE ParseChars(_, _, _)
ParseChars(tx, i, acc) ==
    IF i > Len(tx) THEN ParseFail
    ELSE IF tx[i] = "\"" THEN [ok |-> TRUE, v |-> PyStr(acc), i |-> i + 1]
    ELSE IF tx[i] = "\\"
    THEN IF StartsWith(tx, i + 1, <<"\"">>)
         THEN ParseChars(tx, i + 2, Append(acc, "\""))
         ELSE IF StartsWith(tx, i + 1, <<"\\">>)
         THEN ParseChars(tx, i + 2, Append(acc, "\\"))
         ELSE IF /\ StartsWith(tx, i + 1, <<"u">>)
                 /\ i + 5 <= Len(tx)
                 /\ \A k \in 2..5 : IsHex(tx[i + k])
                 /\ HasChr(HexCode(tx, i + 2))
         THEN ParseChars(tx, i + 6, Append(acc, Chr(HexCode(tx, i + 2))))
         ELSE ParseFail
    ELSE ParseChars(tx, i + 1, Append(acc, tx[i]))

RECURSIVE DigitRun(_, _)
DigitRun(tx, i) ==
    IF i <= Len(tx) /\ tx[i] \in Digits THEN DigitRun(tx, i + 1) ELSE i

\* A number at i: an integer part without a leading zero, then an optional
\* fraction; an int without a fraction and a float with one.
ParseNumber(tx, i) ==
    LET j == IF tx[i] = "0" THEN i + 1 ELSE DigitRun(tx, i)
        k == IF j <= Len(tx) /\ tx[j] = "." THEN DigitRun(tx, j + 1) ELSE j
    IN  IF j <= Len(tx) /\ tx[j] = "." /\ k > j + 1
        THEN [ok |-> TRUE, v |-> PyFloat(SubSeq(tx, i, k - 1)), i |-> k]
        ELSE [ok |-> TRUE, v |-> PyInt(SubSeq(tx, i, j - 1)), i |-> j]

\* dict[key] = value on the key/value sequence kvs.
RECURSIVE DictSet(_, _, _)
DictSet(kvs, k, v) ==
    IF kvs = <<>> THEN <<k, v>>
    ELSE IF kvs[1] = k THEN <<k, v>> \o Tail(Tail(kvs))
    ELSE <<kvs[1], kvs[2]>> \o DictSet(Tail(Tail(kvs)), k, v)

RECURSIVE ParseValue(_, _)
RECURSIVE ParseItems(_, _, _)
RECURSIVE ParseMembers(_, _, _)
ParseValue(tx, i0) ==
    LET i == SkipWs(tx, i0)
    IN  IF i > Len(tx) THEN ParseFail
        ELSE IF tx[i] = "\"" THEN ParseChars(tx, i + 1, <<>>)
        ELSE IF tx[i] \in Digits THEN ParseNumber(tx, i)
        ELSE IF StartsWith(tx, i, <<"t", "r", "u", "e">>)
        THEN [ok |-> TRUE, v |-> PyConst("True"), i |-> i + 4]
        ELSE IF StartsWith(tx, i, <<"f", "a", "l", "s", "e">>)
        THEN [ok |-> TRUE, v |-> PyConst("False"), i |-> i + 5]
        ELSE IF StartsWith(tx, i, <<"n", "u", "l", "l">>)
        THEN [ok |-> TRUE, v |-> PyNone, i |-> i + 4]
        ELSE IF tx[i] = "["
        THEN LET j == SkipWs(tx, i + 1)
             IN  IF j <= Len(tx) /\ tx[j] = "]"
                 THEN [ok |-> TRUE, v |-> PyList(<<>>), i |-> j + 1]
                 ELSE ParseItems(tx, j, <<>>)
        ELSE IF tx[i] = "{"
        THEN LET j == SkipWs(tx, i + 1)
             IN  IF j <= Len(tx) /\ tx[j] = "}"
                 THEN [ok |-> TRUE, v |-> PyDict(<<>>), i |-> j + 1]
                 ELSE ParseMembers(tx, j, <<>>)
        ELSE ParseFail

\* The items of an array from i, after "[" or ",".
ParseItems(tx, i, acc) ==
    LET r == ParseValue(tx, i)
        j == SkipWs(tx, r.i)
    IN  IF ~r.ok \/ j > Len(tx) THEN ParseFail
        ELSE IF tx[j] = "]"
        THEN [ok |-> TRUE, v |-> PyList(Append(acc, r.v)), i |-> j + 1]
        ELSE IF tx[j] = "," THEN ParseItems(tx, j + 1, Append(acc, r.v))
        ELSE ParseFail

\* The members of an object from i, after "{" or ",".
ParseMembers(tx, i0, acc) ==
    LET i == SkipWs(tx, i0)
        k == IF i <= Len(tx) /\ tx[i] = "\""
             THEN ParseChars(tx, i + 1, <<>>) ELSE ParseFail
        c == SkipWs(tx, k.i)
        r == IF k.ok /\ c <= Len(tx) /\ tx[c] = ":"
             THEN ParseValue(tx, c + 1) ELSE ParseFail
        j == SkipWs(tx, r.i)
    IN  IF ~r.ok \/ j > Len(tx) THEN ParseFail
        ELSE IF tx[j] = "}"
        THEN [ok |-> TRUE, v |-> PyDict(DictSet(acc, k.v, r.v)), i |-> j + 1]
        ELSE IF tx[j] = "," THEN ParseMembers(tx, j + 1, DictSet(acc, k.v, r.v))
        ELSE ParseFail

\* json.loads(text): one value, then nothing but white space.
JsonLoads(tx) ==
    LET r == ParseValue(tx, 1)
    IN  IF r.ok /\ SkipWs(tx, r.i) > Len(tx) THEN r ELSE ParseFail

(***************************************************************************)
(* The threads, the topics and the payloads of the model.                  *)
(***************************************************************************)
\* The transport's thread (loop_start), which runs the handlers.
Net ==
    "net"

\* The thread that runs simulate_advanced_sensor_network.
Main ==
    "main"

\* The application threads that call publish and get_messages.
AppOrder ==
    <<"app1", "app2">>

AppThreads ==
    {AppOrder[i] : i \in 1..Len(AppOrder)}

\* The value of message_lock when no thread holds it.
NoThread ==
    "none"

\* The topics messages are delivered on.
Topics ==
    {"sensors/climate/temperature", "system/status"}

\* A wildcard filter, which a caller may pass to get_messages or publish.
Filters ==
    {"sensors/climate/#"}

\* Every string the model uses as a key of message_store, in a fixed order.
KeyOrder ==
    <<"sensors/climate/temperature", "system/status", "sensors/climate/#">>

StoreKeys ==
    Topics \cup Filters

\* "" where no topic is held.
NoTopic ==
    ""

NotJson ==
    <<"n", "o", "t", " ", "j", "s", "o", "n">>

\* {"a": 7}
SmallDict ==
    PyDict(<<PyStr(<<"a">>), PyInt(<<"7">>)>>)

\* {1: "x"}, a dictionary with a key that is not a string.
IntKeyDict ==
    PyDict(<<PyInt(<<"1">>), PyStr(<<"x">>)>>)

\* {"a": {7}}, a dictionary json.dumps cannot serialize.
SetDict ==
    PyDict(<<PyStr(<<"a">>), PySet(<<PyInt(<<"7">>)>>)>>)

\* The payload simulate_advanced_sensor_network builds for the temperature
\* sensor, with fixed readings.
SensorPayload ==
    PyDict(<<PyStr(<<"s", "e", "n", "s", "o", "r">>),
             PyStr(<<"t", "e", "m", "p", "e", "r", "a", "t", "u", "r", "e">>),
             PyStr(<<"v", "a", "l", "u", "e">>),
             PyFloat(<<"2", "4", ".", "5">>),
             PyStr(<<"u", "n", "i", "t">>),
             PyStr(<<"U+00C2", "U+00B0", "C">>),
             PyStr(<<"t", "i", "m", "e", "s", "t", "a", "m", "p">>),
             PyFloat(<<"1", ".", "5">>),
             PyStr(<<"d", "e", "v", "i", "c", "e", "_", "i", "d">>),
             PyStr(<<"s", "e", "n", "s", "o", "r", "_", "t", "e", "m", "p", "e",
                     "r", "a", "t", "u", "r", "e">>)>>)

\* The dicts application threads publish.
DictMessages ==
    {IntKeyDict, SetDict}

\* The messages application threads publish.
AppMessages ==
    {IntKeyDict, SetDict, PyStr(NotJson)}

\* A payload that is a JSON object.
JsonPayloads ==
    {Utf8Encode(JsonDumps(SmallDict).text)}

\* The payloads other clients publish: a JSON object, text that is no JSON,
\* and a byte that is no UTF-8.
RawPayloads ==
    JsonPayloads \cup {Utf8Encode(NotJson), <<255>>}

\* The connect-result codes the broker answers with: 0, the five codes
\* _on_connect's error_messages names, and two it does not name.
ResultCodes ==
    0..7

(***************************************************************************)
(* Bounds of the model.                                                    *)
(***************************************************************************)
\* The deliveries the transport thread handles in a run.
MaxDeliveries ==
    2

\* The publications the broker holds at a time.
MaxInflight ==
    1

\* The places a reference to a list object is held: the keys of the store,
\* the transport thread's local, each application thread's local or result.
Slots ==
    1..(Len(KeyOrder) + 1 + Len(AppOrder))

\* The list objects alive at a time: one per slot, and one being created.
ListIds ==
    1..(Len(KeyOrder) + Len(AppOrder) + 2)

\* No list object.
NoList ==
    0

(***************************************************************************)
(* The state.                                                              *)
(***************************************************************************)
VARIABLES
    is_connected,   \* self.is_connected
    message_store,  \* self.message_store: topic -> list object
    heap,           \* the contents of every list object
    message_lock,   \* the thread holding self.message_lock, or NoThread
    net,            \* the transport thread inside _on_connect or
                    \* _on_message: its place and its locals
    apc,            \* each application thread's place inside get_messages
    atopic,         \* get_messages' argument topic
    aclear,         \* get_messages' argument clear
    amessages,      \* get_messages' local messages
    aresult,        \* the list the caller got from its last get_messages
    mpc,            \* the driver's place in simulate_advanced_sensor_network
    loop_running,   \* between client.loop_start() and client.loop_stop()
    session,        \* the broker has accepted the connection and holds it
    subscribed,     \* the subscribe requests _on_connect has issued for the
                    \* last connect-result, in order, each with the
                    \* connection state it was issued in
    last_connect,   \* the last connect-result handled and its log record,
                    \* a sequence of 0 or 1
    wire,           \* publications the broker holds
    clock,          \* time.time(), which each reading moves on by one
    last_pub,       \* the last publish call: what the transport did, what
                    \* the caller was shown and the log record
    deliveries,     \* how many times _on_message was called
    handled,        \* per topic, how many _on_message calls have returned
    arrived,        \* per topic, every message appended, in order
    returned,       \* per topic, what the clearing get_messages calls
                    \* returned, in the order they returned
    undrained,      \* per topic, the messages appended since the last
                    \* clearing get_messages returned
    cleared         \* per topic, a clearing get_messages has returned and
                    \* no message was appended since

vars ==
    <<is_connected, message_store, heap, message_lock, net, apc, atopic,
      aclear, amessages, aresult, mpc, loop_running, session, subscribed,
      last_connect, wire, clock, last_pub, deliveries, handled, arrived,
      returned, undrained, cleared>>

storeVars ==
    <<message_store, heap, message_lock>>

appVars ==
    <<apc, atopic, aclear, amessages, aresult>>

connVars ==
    <<is_connected, session, subscribed, last_connect>>

driverVars ==
    <<mpc, loop_running>>

historyVars ==
    <<deliveries, handled, arrived, returned, undrained, cleared>>

(***************************************************************************)
(* List objects.                                                           *)
(***************************************************************************)
\* The slot of a key of the store, of the transport thread and of an
\* application thread.
KeySlot(k) ==
    CHOOSE p \in 1..Len(KeyOrder) : KeyOrder[p] = k

NetSlot ==
    Len(KeyOrder) + 1

AppSlot(t) ==
    Len(KeyOrder) + 1 + CHOOSE i \in 1..Len(AppOrder) : AppOrder[i] = t

\* The name of a list object that was just created and that no slot holds yet.
Spare ==
    Len(KeyOrder) + Len(AppOrder) + 2

\* The list object held at a slot, or NoList.
SlotRef(p, store, ref, msgs, res) ==
    IF p <= Len(KeyOrder)
    THEN (IF KeyOrder[p] \in DOMAIN store THEN store[KeyOrder[p]] ELSE NoList)
    ELSE IF p = NetSlot THEN ref
    ELSE LET t == AppOrder[p - NetSlot]
         IN  IF msgs[t] # NoList THEN msgs[t] ELSE res[t]

\* Objects have no names of their own: every list object is named by the
\* first slot that holds it, and the objects nothing holds are gone.
Renamed(store, ref, msgs, res, h) ==
    LET at == [p \in Slots |-> SlotRef(p, store, ref, msgs, res)]
        same(p) == {q \in 1..p : at[q] = at[p]}
        first == [p \in Slots |->
                     IF at[p] = NoList THEN NoList
                     ELSE CHOOSE q \in same(p) : \A r \in same(p) : q <= r]
    IN  [store |-> [k \in DOMAIN store |-> first[KeySlot(k)]],
         ref |-> first[NetSlot],
         msgs |-> [t \in AppThreads |->
                      IF msgs[t] = NoList THEN NoList ELSE first[AppSlot(t)]],
         res |-> [t \in AppThreads |->
                     IF res[t] = NoList THEN NoList ELSE first[AppSlot(t)]],
         heap |-> [l \in ListIds |->
                      IF l \in Slots /\ first[l] = l THEN h[at[l]] ELSE <<>>]]

\* The next state's references and list objects.  A step that only copies
\* a reference to a list the store holds, or lets go of one another slot
\* names, changes no name and needs none of this.
Settle(store, nt, msgs, res, h) ==
    LET c == Renamed(store, nt.ref, msgs, res, h)
    IN  /\ message_store' = c.store
        /\ net' = [nt EXCEPT !.ref = c.ref]
        /\ amessages' = c.msgs
        /\ aresult' = c.res
        /\ heap' = c.heap

\* dict[key] = value
DictPut(d, k, v) ==
    [x \in DOMAIN d \cup {k} |-> IF x = k THEN v ELSE d[x]]

\* The contents stored under a topic, empty when the key is absent.
StoreSeq(topic) ==
    IF topic \in DOMAIN message_store THEN heap[message_store[topic]] ELSE <<>>

(***************************************************************************)
(* The code's own steps, as operators.                                     *)
(***************************************************************************)
\* A lock that lets every thread in.
LockIgnored(lock) ==
    TRUE

\* A lock that the transport thread's hold does not close.
LockOpenToReaders(lock) ==
    lock \notin AppThreads

\* with self.message_lock: the lock can be taken when no thread holds it.
LockFree(lock) ==
    lock = NoThread

\* An assignment that follows every result code.
ConnectResultFollowsCode(rc, was) ==
    rc = 0

\* _on_connect's assignment to self.is_connected for result code rc.
ConnectResult(rc, was) ==
    IF rc = 0 THEN TRUE ELSE was

\* Subscribe requests whatever the result code is.
AutoSubscribeAlways(rc) ==
    <<"system/status", "system/config">>

\* _on_connect's subscribe requests for result code rc.
AutoSubscribe(rc) ==
    IF rc = 0 THEN <<"system/status", "system/config">> ELSE <<>>

\* _on_connect's log record for result code rc.
ConnectLog(rc) ==
    IF rc = 0 THEN "info: connected"
    ELSE CASE rc = 1 -> "error: incorrect protocol version"
           [] rc = 2 -> "error: invalid client identifier"
           [] rc = 3 -> "error: server unavailable"
           [] rc = 4 -> "error: bad username or password"
           [] rc = 5 -> "error: not authorized"
           [] OTHER -> "error: unknown error"

\* A decoding that keeps the text and never reads it as JSON.
DecodeTextOnly(raw) ==
    LET d == Utf8Decode(raw)
    IN  IF d.ok THEN [ok |-> TRUE, payload |-> PyStr(d.text)]
        ELSE [ok |-> FALSE, payload |-> PyNone]

\* _on_message's decoding of a raw payload: [ok, payload], ok FALSE where
\* decode('utf-8') raises; the payload is what json.loads reads, or the
\* text itself where json.loads raises JSONDecodeError.
DecodePayload(raw) ==
    LET d == Utf8Decode(raw)
        j == JsonLoads(d.text)
    IN  IF ~d.ok THEN [ok |-> FALSE, payload |-> PyNone]
        ELSE IF j.ok THEN [ok |-> TRUE, payload |-> j.v]
        ELSE [ok |-> TRUE, payload |-> PyStr(d.text)]

\* The dictionary _on_message appends; id is the object's identity.
NewMessage(id, payload, now) ==
    [id |-> id, payload |-> payload, timestamp |-> now]

\* An append at the front.
ListPrepend(contents, m) ==
    <<m>> \o contents

\* An append that stores the message twice.
ListAppendTwice(contents, m) ==
    contents \o <<m, m>>

\* An append that is lost.
ListAppendLost(contents, m) ==
    contents

\* list.append
ListAppend(contents, m) ==
    Append(contents, m)

\* A clear that resets every topic.
ClearEveryTopic(store, topic, fresh) ==
    [k \in DOMAIN store \cup {topic} |-> fresh]

\* A clear that leaves the store as it is.
ClearNothing(store, topic, fresh) ==
    store

\* get_messages with clear: self.message_store[topic] = []
ClearTopic(store, topic, fresh) ==
    DictPut(store, topic, fresh)

\* str(message) for the messages of the model: a str is itself and a number
\* is its digits.
PyToStr(v) ==
    v.s

\* publish's text for the transport: [ok, text], ok FALSE where json.dumps
\* raises.
PublishText(message) ==
    IF message.t = "dict" THEN JsonDumps(message)
    ELSE [ok |-> TRUE, text |-> PyToStr(message)]

\* paho refuses to publish on a topic that holds a wildcard (ValueError).
HasWildcard(topic) ==
    topic \in Filters

\* What the transport does with a publish request: "raised", "rejected"
\* (a result code other than MQTT_ERR_SUCCESS) or "ok".
TransportPublish(topic, up, queued) ==
    IF HasWildcard(topic) THEN "raised"
    ELSE IF ~up \/ queued >= MaxInflight THEN "rejected"
    ELSE "ok"

\* Every message the model publishes, and publish's text for each.
Published ==
    AppMessages \cup {SensorPayload}

PublishTexts ==
    [m \in Published |-> PublishText(m)]

\* The bytes the transport sends for each message publish has a text for.
PublishBytes ==
    [m \in {x \in Published : PublishTexts[x].ok} |->
        Utf8Encode(PublishTexts[m].text)]

\* Every raw payload the model delivers, and _on_message's decoding of each.
Delivered ==
    RawPayloads \cup {PublishBytes[m] : m \in DOMAIN PublishBytes}

Decodings ==
    [raw \in Delivered |-> DecodePayload(raw)]

\* What a publish call shows its caller, whatever happened: every path of
\* publish ends without a return statement and without raising, and the
\* manager keeps no error record.
PublishView(fate) ==
    [returned |-> "None", raised |-> FALSE, error_record |-> "none"]

\* publish's log record.
PublishLog(fate) ==
    CASE fate = "ok" -> "info: published"
      [] fate = "rejected" -> "warning: publication failed"
      [] OTHER -> "error: publish error"

(***************************************************************************)
(* The state after AdvancedMQTTManager() and before simulate's first call. *)
(* __init__ binds client.on_publish to self._on_publish (line 55), a       *)
(* method src/MQTT.py does not define; the model is of the manager         *)
(* constructed with that method in place, a callback that changes none of  *)
(* the state below.                                                        *)
(***************************************************************************)
\* The transport thread outside _on_message.
NetIdle ==
    [pc |-> "idle", topic |-> NoTopic, payload |-> PyNone, ref |-> NoList,
     orig |-> PyNone]

NoPublish ==
    [fate |-> "none",
     view |-> [returned |-> "no call", raised |-> FALSE, error_record |-> "none"],
     log |-> "none"]

Init ==
    /\ is_connected = FALSE
    /\ message_store = [k \in {} |-> NoList]
    /\ heap = [l \in ListIds |-> <<>>]
    /\ message_lock = NoThread
    /\ net = NetIdle
    /\ apc = [t \in AppThreads |-> "idle"]
    /\ atopic = [t \in AppThreads |-> NoTopic]
    /\ aclear = [t \in AppThreads |-> FALSE]
    /\ amessages = [t \in AppThreads |-> NoList]
    /\ aresult = [t \in AppThreads |-> NoList]
    /\ mpc = "connect"
    /\ loop_running = FALSE
    /\ session = FALSE
    /\ subscribed = <<>>
    /\ last_connect = <<>>
    /\ wire = {}
    /\ clock = 0
    /\ last_pub = NoPublish
    /\ deliveries = 0
    /\ handled = [T \in Topics |-> 0]
    /\ arrived = [T \in StoreKeys |-> <<>>]
    /\ returned = [T \in StoreKeys |-> <<>>]
    /\ undrained = [T \in StoreKeys |-> <<>>]
    /\ cleared = [T \in StoreKeys |-> FALSE]

(***************************************************************************)
(* The transport thread: _on_connect.                                      *)
(***************************************************************************)
\* The broker answers a connection attempt with result code rc and the
\* transport thread runs _on_connect.
OnConnect(rc) ==
    /\ loop_running
    /\ net.pc = "idle"
    /\ ~session
    /\ is_connected' = ConnectResult(rc, is_connected)
    /\ subscribed' = <<>>
    /\ last_connect' = <<[rc |-> rc, log |-> ConnectLog(rc)]>>
    /\ session' = (rc = 0)
    /\ net' = IF AutoSubscribe(rc) = <<>> THEN net
              ELSE [net EXCEPT !.pc = "subscribe"]
    /\ UNCHANGED <<storeVars, appVars, driverVars, wire, clock, last_pub,
                   historyVars>>

\* self.client.subscribe(...): _on_connect issues its next subscribe
\* request, and returns after the last one.
OnConnectSubscribe ==
    LET todo == AutoSubscribe(last_connect[1].rc)
        k == Len(subscribed) + 1
    IN  /\ net.pc = "subscribe"
        /\ subscribed' = Append(subscribed, [topic |-> todo[k],
                                             connected |-> is_connected])
        /\ net' = IF k = Len(todo) THEN NetIdle ELSE net
        /\ UNCHANGED <<is_connected, session, last_connect, storeVars,
                       appVars, driverVars, wire, clock, last_pub,
                       historyVars>>

\* The connection drops; the manager registers no on_disconnect handler.
ConnectionLost ==
    /\ loop_running
    /\ net.pc = "idle"
    /\ session
    /\ session' = FALSE
    /\ UNCHANGED <<is_connected, subscribed, last_connect, storeVars, net, appVars,
                   driverVars, wire, clock, last_pub, historyVars>>

(***************************************************************************)
(* The transport thread: _on_message.                                      *)
(***************************************************************************)
\* _on_message is called with a topic and a raw payload and decodes it.
\* Where decode('utf-8') raises, the handler's except Exception logs the
\* error and the handler returns.
OnMessageDecode(topic, raw, orig) ==
    LET d == Decodings[raw]
    IN  /\ loop_running
        /\ session
        /\ net.pc = "idle"
        /\ deliveries < MaxDeliveries
        /\ deliveries' = deliveries + 1
        /\ IF d.ok
           THEN /\ net' = [pc |-> "lock", topic |-> topic, payload |-> d.payload,
                           ref |-> NoList, orig |-> orig]
                /\ UNCHANGED handled
           ELSE /\ net' = NetIdle
                /\ handled' = [handled EXCEPT ![topic] = @ + 1]
        /\ UNCHANGED <<connVars, storeVars, appVars, driverVars, clock, last_pub,
                       arrived, returned, undrained, cleared>>

\* A message another client published arrives, its payload one of raws.
\* The transport calls _on_message for every topic it is subscribed to:
\* _on_connect subscribes to the system topics, and whoever holds the
\* manager can subscribe its client to more.
OnMessageFromBroker(raws) ==
    \E topic \in Topics, raw \in raws :
        /\ OnMessageDecode(topic, raw, PyNone)
        /\ UNCHANGED wire

\* A message this client published comes back.
OnMessageFromWire ==
    \E m \in wire :
        /\ OnMessageDecode(m.topic, m.payload, m.orig)
        /\ wire' = wire \ {m}

\* with self.message_lock:
OnMessageAcquire ==
    /\ net.pc = "lock"
    /\ LockFree(message_lock)
    /\ message_lock' = Net
    /\ net' = [net EXCEPT !.pc = "check"]
    /\ UNCHANGED <<connVars, message_store, heap, appVars, driverVars, wire,
                   clock, last_pub, historyVars>>

\* if message.topic not in self.message_store:
\*     self.message_store[message.topic] = []
OnMessageCheck ==
    /\ net.pc = "check"
    /\ IF net.topic \in DOMAIN message_store
       THEN /\ net' = [net EXCEPT !.pc = "lookup"]
            /\ UNCHANGED <<message_store, heap, amessages, aresult>>
       ELSE Settle(DictPut(message_store, net.topic, Spare),
                   [net EXCEPT !.pc = "lookup"], amessages, aresult,
                   [heap EXCEPT ![Spare] = <<>>])
    /\ UNCHANGED <<connVars, message_lock, apc, atopic, aclear, driverVars,
                   wire, clock, last_pub, historyVars>>

\* self.message_store[message.topic]
OnMessageLookup ==
    /\ net.pc = "lookup"
    /\ net' = [net EXCEPT !.pc = "append", !.ref = message_store[net.topic]]
    /\ UNCHANGED <<connVars, storeVars, appVars, driverVars, wire, clock,
                   last_pub, historyVars>>

\* .append({'payload': parsed_payload, 'timestamp': time.time()})
OnMessageAppend ==
    LET m == NewMessage(deliveries, net.payload, clock)
    IN  /\ net.pc = "append"
        /\ heap' = [heap EXCEPT ![net.ref] = ListAppend(@, m)]
        /\ net' = [net EXCEPT !.pc = "exit"]
        /\ arrived' = [arrived EXCEPT ![net.topic] =
                          Append(@, [msg |-> m, orig |-> net.orig])]
        /\ undrained' = [undrained EXCEPT ![net.topic] = Append(@, m)]
        /\ cleared' = [cleared EXCEPT ![net.topic] = FALSE]
        /\ clock' = clock + 1
        /\ UNCHANGED <<connVars, message_store, message_lock, appVars,
                       driverVars, wire, last_pub, deliveries, handled,
                       returned>>

\* A handler that returns and keeps the lock.
OnMessageExitKeepsLock ==
    /\ net.pc = "exit"
    /\ handled' = [handled EXCEPT ![net.topic] = @ + 1]
    /\ IF net.ref = NetSlot
       THEN Settle(message_store, NetIdle, amessages, aresult, heap)
       ELSE /\ net' = NetIdle
            /\ UNCHANGED <<message_store, heap, amessages, aresult>>
    /\ UNCHANGED <<connVars, message_lock, apc, atopic, aclear, driverVars,
                   wire, clock, last_pub, deliveries, arrived, returned,
                   undrained, cleared>>

\* The with block ends, the handler logs the message and returns.
OnMessageExit ==
    /\ net.pc = "exit"
    /\ message_lock' = NoThread
    /\ handled' = [handled EXCEPT ![net.topic] = @ + 1]
    /\ IF net.ref = NetSlot
       THEN Settle(message_store, NetIdle, amessages, aresult, heap)
       ELSE /\ net' = NetIdle
            /\ UNCHANGED <<message_store, heap, amessages, aresult>>
    /\ UNCHANGED <<connVars, apc, atopic, aclear, driverVars, wire, clock,
                   last_pub, deliveries, arrived, returned, undrained, cleared>>

(***************************************************************************)
(* Application threads: get_messages.                                      *)
(***************************************************************************)
\* A thread calls get_messages(topic, clear); the list it got from its last
\* call is let go.
GetMessagesCall(t, topic, clear) ==
    /\ apc[t] = "idle"
    /\ apc' = [apc EXCEPT ![t] = "lock"]
    /\ atopic' = [atopic EXCEPT ![t] = topic]
    /\ aclear' = [aclear EXCEPT ![t] = clear]
    /\ IF aresult[t] = AppSlot(t)
       THEN Settle(message_store, net, amessages,
                   [aresult EXCEPT ![t] = NoList], heap)
       ELSE /\ aresult' = [aresult EXCEPT ![t] = NoList]
            /\ UNCHANGED <<message_store, heap, net, amessages>>
    /\ UNCHANGED <<connVars, message_lock, driverVars, wire, clock, last_pub,
                   historyVars>>

\* with self.message_lock:
GetMessagesAcquire(t) ==
    /\ apc[t] = "lock"
    /\ LockFree(message_lock)
    /\ message_lock' = t
    /\ apc' = [apc EXCEPT ![t] = "get"]
    /\ UNCHANGED <<connVars, message_store, heap, net, atopic, aclear,
                   amessages, aresult, driverVars, wire, clock,
                   last_pub, historyVars>>

\* messages = self.message_store.get(topic, [])
GetMessagesGet(t) ==
    /\ apc[t] = "get"
    /\ IF atopic[t] \in DOMAIN message_store
       THEN /\ amessages' = [amessages EXCEPT ![t] = message_store[atopic[t]]]
            /\ UNCHANGED <<message_store, heap, net, aresult>>
       ELSE Settle(message_store, net, [amessages EXCEPT ![t] = Spare],
                   aresult, [heap EXCEPT ![Spare] = <<>>])
    /\ apc' = [apc EXCEPT ![t] = IF aclear[t] THEN "clear" ELSE "return"]
    /\ UNCHANGED <<connVars, message_lock, atopic, aclear, driverVars, wire,
                   clock, last_pub, historyVars>>

\* if clear: self.message_store[topic] = []
GetMessagesClear(t) ==
    /\ apc[t] = "clear"
    /\ Settle(ClearTopic(message_store, atopic[t], Spare), net, amessages,
              aresult, [heap EXCEPT ![Spare] = <<>>])
    /\ apc' = [apc EXCEPT ![t] = "return"]
    /\ UNCHANGED <<connVars, message_lock, atopic, aclear, driverVars, wire,
                   clock, last_pub, historyVars>>

\* return messages, and the with block ends.
GetMessagesReturn(t) ==
    LET T == atopic[t]
    IN  /\ apc[t] = "return"
        /\ message_lock' = NoThread
        /\ aresult' = [aresult EXCEPT ![t] = amessages[t]]
        /\ amessages' = [amessages EXCEPT ![t] = NoList]
        /\ apc' = [apc EXCEPT ![t] = "idle"]
        /\ atopic' = [atopic EXCEPT ![t] = NoTopic]
        /\ aclear' = [aclear EXCEPT ![t] = FALSE]
        /\ IF aclear[t]
           THEN /\ returned' = [returned EXCEPT ![T] = @ \o heap[amessages[t]]]
                /\ undrained' = [undrained EXCEPT ![T] = <<>>]
                /\ cleared' = [cleared EXCEPT ![T] = TRUE]
           ELSE UNCHANGED <<returned, undrained, cleared>>
        /\ UNCHANGED <<connVars, message_store, heap, net, driverVars, wire,
                       clock, last_pub, deliveries, handled, arrived>>

(***************************************************************************)
(* publish.                                                                *)
(***************************************************************************)
\* A publish that takes a failed request for a lost connection.
PublishMarksState(topic, message, qos, retain) ==
    LET enc == PublishTexts[message]
        fate == IF enc.ok
                THEN TransportPublish(topic, session, Cardinality(wire))
                ELSE "raised"
    IN  /\ wire' = IF fate = "ok"
                   THEN wire \cup {[topic |-> topic,
                                    payload |-> PublishBytes[message],
                                    orig |-> message]}
                   ELSE wire
        /\ last_pub' = [fate |-> fate, view |-> PublishView(fate),
                        log |-> PublishLog(fate)]
        /\ is_connected' = (is_connected /\ fate = "ok")
        /\ UNCHANGED <<session, subscribed, last_connect, storeVars, net,
                       appVars, driverVars, clock, historyVars>>

\* publish(topic, message, qos, retain), whoever calls it.
Publish(topic, message, qos, retain) ==
    LET enc == PublishTexts[message]
        fate == IF enc.ok
                THEN TransportPublish(topic, session, Cardinality(wire))
                ELSE "raised"
    IN  /\ wire' = IF fate = "ok"
                   THEN wire \cup {[topic |-> topic,
                                    payload |-> PublishBytes[message],
                                    orig |-> message]}
                   ELSE wire
        /\ last_pub' = [fate |-> fate, view |-> PublishView(fate),
                        log |-> PublishLog(fate)]
        /\ UNCHANGED <<connVars, storeVars, net, appVars, driverVars, clock,
                       historyVars>>

\* An application thread publishes one of messages on one of topics, with
\* the default retain.
AppPublish(t, topics, messages) ==
    /\ apc[t] = "idle"
    /\ \E topic \in topics, message \in messages, qos \in 0..2 :
          Publish(topic, message, qos, FALSE)

(***************************************************************************)
(* The driver: simulate_advanced_sensor_network, for its temperature       *)
(* sensor.                                                                 *)
(***************************************************************************)
\* mqtt_client.client.connect(broker, port) returns once the socket is open
\* and the connect request is sent, or raises where the broker cannot be
\* reached; it does not wait for the broker's answer.
MainConnect ==
    /\ mpc = "connect"
    /\ \E reached \in BOOLEAN :
          mpc' = IF reached THEN "loop_start" ELSE "raised"
    /\ UNCHANGED <<connVars, storeVars, net, appVars, loop_running, wire,
                   clock, last_pub, historyVars>>

\* mqtt_client.client.loop_start()
MainLoopStart ==
    /\ mpc = "loop_start"
    /\ loop_running' = TRUE
    /\ mpc' = "publish"
    /\ UNCHANGED <<connVars, storeVars, net, appVars, wire, clock,
                   last_pub, historyVars>>

\* mqtt_client.publish(topic=config['topic'], message=payload,
\*                     qos=random.choice([0, 1, 2]))
MainPublish ==
    /\ mpc = "publish"
    /\ \E qos \in 0..2 :
          Publish("sensors/climate/temperature", SensorPayload, qos, FALSE)

\* KeyboardInterrupt, then finally: mqtt_client.client.loop_stop(), which
\* waits for the transport thread to end.
MainStop ==
    /\ mpc = "publish"
    /\ net.pc = "idle"
    /\ loop_running' = FALSE
    /\ session' = FALSE
    /\ mpc' = "done"
    /\ UNCHANGED <<is_connected, subscribed, last_connect, storeVars, net, appVars,
                   wire, clock, last_pub, historyVars>>

(***************************************************************************)
(* The specification.                                                      *)
(***************************************************************************)
Next ==
    \/ \E rc \in ResultCodes : OnConnect(rc)
    \/ OnConnectSubscribe
    \/ ConnectionLost
    \/ OnMessageFromBroker(RawPayloads)
    \/ OnMessageFromWire
    \/ OnMessageAcquire
    \/ OnMessageCheck
    \/ OnMessageLookup
    \/ OnMessageAppend
    \/ OnMessageExit
    \/ \E t \in AppThreads, topic \in StoreKeys, clear \in BOOLEAN :
          GetMessagesCall(t, topic, clear)
    \/ \E t \in AppThreads : GetMessagesAcquire(t)
    \/ \E t \in AppThreads : GetMessagesGet(t)
    \/ \E t \in AppThreads : GetMessagesClear(t)
    \/ \E t \in AppThreads : GetMessagesReturn(t)
    \/ \E t \in AppThreads : AppPublish(t, StoreKeys, AppMessages)
    \/ MainConnect
    \/ MainLoopStart
    \/ MainPublish
    \/ MainStop

\* The whole program.
Spec ==
    Init /\ [][Next]_vars

\* The store under concurrent use: a broker that accepts the connection and
\* keeps it, other clients publishing JSON objects on the topics, and every
\* application thread calling get_messages on them.  The steps left out
\* change none of message_store, heap and message_lock.
NextStore ==
    \/ OnConnect(0)
    \/ OnConnectSubscribe
    \/ OnMessageFromBroker(JsonPayloads)
    \/ OnMessageAcquire
    \/ OnMessageCheck
    \/ OnMessageLookup
    \/ OnMessageAppend
    \/ OnMessageExit
    \/ \E t \in AppThreads, topic \in Topics, clear \in BOOLEAN :
          GetMessagesCall(t, topic, clear)
    \/ \E t \in AppThreads : GetMessagesAcquire(t)
    \/ \E t \in AppThreads : GetMessagesGet(t)
    \/ \E t \in AppThreads : GetMessagesClear(t)
    \/ \E t \in AppThreads : GetMessagesReturn(t)
    \/ MainConnect
    \/ MainLoopStart

SpecStore ==
    Init /\ [][NextStore]_vars

\* The connection and publishing: every connect-result, connections that
\* drop, the driver and the application threads publishing.  No message is
\* delivered and no thread reads the store.
NextLink ==
    \/ \E rc \in ResultCodes : OnConnect(rc)
    \/ OnConnectSubscribe
    \/ ConnectionLost
    \/ \E t \in AppThreads : AppPublish(t, StoreKeys, AppMessages)
    \/ MainConnect
    \/ MainLoopStart
    \/ MainPublish
    \/ MainStop

SpecLink ==
    Init /\ [][NextLink]_vars

\* A message's way from publish to get_messages: a broker that accepts the
\* connection and keeps it, the driver and the first application thread
\* publishing (the thread on system/status, a topic _on_connect subscribes
\* to), the broker delivering what they publish, and the last application
\* thread calling get_messages.
NextTrip ==
    \/ OnConnect(0)
    \/ OnConnectSubscribe
    \/ OnMessageFromWire
    \/ OnMessageAcquire
    \/ OnMessageCheck
    \/ OnMessageLookup
    \/ OnMessageAppend
    \/ OnMessageExit
    \/ \E topic \in Topics, clear \in BOOLEAN :
          GetMessagesCall(AppOrder[Len(AppOrder)], topic, clear)
    \/ GetMessagesAcquire(AppOrder[Len(AppOrder)])
    \/ GetMessagesGet(AppOrder[Len(AppOrder)])
    \/ GetMessagesClear(AppOrder[Len(AppOrder)])
    \/ GetMessagesReturn(AppOrder[Len(AppOrder)])
    \/ AppPublish(AppOrder[1], {"system/status"}, DictMessages)
    \/ MainConnect
    \/ MainLoopStart
    \/ MainPublish

SpecTrip ==
    Init /\ [][NextTrip]_vars

\* Other clients' payloads of every kind: a broker that accepts the
\* connection and keeps it and delivers them, and the last application
\* thread calling get_messages.
NextFeed ==
    \/ OnConnect(0)
    \/ OnConnectSubscribe
    \/ OnMessageFromBroker(RawPayloads)
    \/ OnMessageAcquire
    \/ OnMessageCheck
    \/ OnMessageLookup
    \/ OnMessageAppend
    \/ OnMessageExit
    \/ \E topic \in Topics, clear \in BOOLEAN :
          GetMessagesCall(AppOrder[Len(AppOrder)], topic, clear)
    \/ GetMessagesAcquire(AppOrder[Len(AppOrder)])
    \/ GetMessagesGet(AppOrder[Len(AppOrder)])
    \/ GetMessagesClear(AppOrder[Len(AppOrder)])
    \/ GetMessagesReturn(AppOrder[Len(AppOrder)])
    \/ MainConnect
    \/ MainLoopStart

SpecFeed ==
    Init /\ [][NextFeed]_vars

\* The store's keys: a broker that accepts the connection and keeps it,
\* other clients publishing JSON objects on the topics, and the last
\* application thread calling get_messages with the topics and with a
\* wildcard filter that matches one of them.
NextKeys ==
    \/ OnConnect(0)
    \/ OnConnectSubscribe
    \/ OnMessageFromBroker(JsonPayloads)
    \/ OnMessageAcquire
    \/ OnMessageCheck
    \/ OnMessageLookup
    \/ OnMessageAppend
    \/ OnMessageExit
    \/ \E topic \in StoreKeys, clear \in BOOLEAN :
          GetMessagesCall(AppOrder[Len(AppOrder)], topic, clear)
    \/ GetMessagesAcquire(AppOrder[Len(AppOrder)])
    \/ GetMessagesGet(AppOrder[Len(AppOrder)])
    \/ GetMessagesClear(AppOrder[Len(AppOrder)])
    \/ GetMessagesReturn(AppOrder[Len(AppOrder)])
    \/ MainConnect
    \/ MainLoopStart

SpecKeys ==
    Init /\ [][NextKeys]_vars

\* Deliveries and reads: a broker that accepts the connection and keeps
\* it and delivers JSON objects and payloads that are no UTF-8, and the last
\* application thread calling get_messages.
NextDrain ==
    \/ OnConnect(0)
    \/ OnConnectSubscribe
    \/ OnMessageFromBroker(JsonPayloads \cup {<<255>>})
    \/ OnMessageAcquire
    \/ OnMessageCheck
    \/ OnMessageLookup
    \/ OnMessageAppend
    \/ OnMessageExit
    \/ \E topic \in Topics, clear \in BOOLEAN :
          GetMessagesCall(AppOrder[Len(AppOrder)], topic, clear)
    \/ GetMessagesAcquire(AppOrder[Len(AppOrder)])
    \/ GetMessagesGet(AppOrder[Len(AppOrder)])
    \/ GetMessagesClear(AppOrder[Len(AppOrder)])
    \/ GetMessagesReturn(AppOrder[Len(AppOrder)])
    \/ MainConnect
    \/ MainLoopStart

\* Deliveries and reads under fair scheduling: a thread inside _on_connect,
\* _on_message or get_messages takes its next step, a thread that waits for
\* the lock gets it when it is free again and again, and the application
\* thread keeps issuing clearing get_messages calls for every topic.
FairDrain ==
    /\ Init /\ [][NextDrain]_vars
    /\ WF_vars(OnConnectSubscribe)
    /\ WF_vars(OnMessageCheck \/ OnMessageLookup \/ OnMessageAppend
                  \/ OnMessageExit)
    /\ SF_vars(OnMessageAcquire)
    /\ WF_vars(GetMessagesGet(AppOrder[Len(AppOrder)])
                  \/ GetMessagesClear(AppOrder[Len(AppOrder)])
                  \/ GetMessagesReturn(AppOrder[Len(AppOrder)]))
    /\ SF_vars(GetMessagesAcquire(AppOrder[Len(AppOrder)]))
    /\ \A T \in Topics :
          SF_vars(GetMessagesCall(AppOrder[Len(AppOrder)], T, TRUE))

\* Every operation in every connection state: connect-results that
\* succeed and that fail, connections that drop, other clients' payloads of
\* every kind, the first application thread publishing (what the transport
\* accepts or rejects and what json.dumps raises on) and the last calling
\* get_messages.
NextFrame ==
    \/ OnConnect(0)
    \/ OnConnect(5)
    \/ OnConnectSubscribe
    \/ ConnectionLost
    \/ OnMessageFromBroker(RawPayloads)
    \/ OnMessageAcquire
    \/ OnMessageCheck
    \/ OnMessageLookup
    \/ OnMessageAppend
    \/ OnMessageExit
    \/ \E clear \in BOOLEAN :
          GetMessagesCall(AppOrder[Len(AppOrder)], "system/status", clear)
    \/ GetMessagesAcquire(AppOrder[Len(AppOrder)])
    \/ GetMessagesGet(AppOrder[Len(AppOrder)])
    \/ GetMessagesClear(AppOrder[Len(AppOrder)])
    \/ GetMessagesReturn(AppOrder[Len(AppOrder)])
    \/ AppPublish(AppOrder[1], {"system/status"}, {SetDict, PyStr(NotJson)})
    \/ MainConnect
    \/ MainLoopStart

SpecFrame ==
    Init /\ [][NextFrame]_vars

(***************************************************************************)
(* The store's contract, under SpecStore.                                  *)
(***************************************************************************)
\* C1: for every topic, the sequences the clearing drains of the topic
\* returned, in the order the calls completed, followed by what is stored
\* under the topic, are the messages appended under the topic in arrival
\* order, none missing and none twice.  A clearing drain that has reset the
\* sequence and has not yet returned holds messages that are in neither;
\* the statement is about every other moment.
DrainsPartitionArrivals ==
    \A T \in Topics :
        (~ \E t \in AppThreads :
              apc[t] = "return" /\ aclear[t] /\ atopic[t] = T)
        => returned[T] \o StoreSeq(T)
              = [i \in 1..Len(arrived[T]) |-> arrived[T][i].msg]

\* A clearing drain of a topic has returned a message, a message that
\* arrived after it is stored, and every call has completed.
DrainsPartitionArrivalsWitness ==
    \E T \in Topics :
        /\ Len(returned[T]) >= 1
        /\ Len(StoreSeq(T)) >= 1
        /\ Len(arrived[T]) = MaxDeliveries
        /\ \A t \in AppThreads : apc[t] = "idle"
        /\ net.pc = "idle"

\* C2: a get_messages(T, clear=False) that follows a clearing drain of T,
\* with no append under T since that drain returned, returns an empty
\* sequence.
ReadAfterDrainIsEmpty ==
    \A t \in AppThreads :
        (apc[t] = "return" /\ ~aclear[t] /\ cleared[atopic[t]])
        => heap[amessages[t]] = <<>>

\* A read without clear is about to return for a topic whose messages a
\* clearing drain returned, none having arrived since.
ReadAfterDrainIsEmptyWitness ==
    \E t \in AppThreads :
        /\ apc[t] = "return"
        /\ ~aclear[t]
        /\ cleared[atopic[t]]
        /\ returned[atopic[t]] # <<>>

\* C3: get_messages(T, clear) returns, for either value of clear, the
\* messages appended under T since the last clearing drain of T, or since
\* construction, in the order their deliveries were handled, and the empty
\* sequence for a topic on which no message ever arrived.
GetMessagesReturnsUndrained ==
    \A t \in AppThreads :
        apc[t] = "return"
        => /\ heap[amessages[t]] = undrained[atopic[t]]
           /\ arrived[atopic[t]] = <<>> => heap[amessages[t]] = <<>>

\* A call is about to return two messages that arrived after a clearing
\* drain of their topic, or since construction.
GetMessagesReturnsUndrainedWitness ==
    \E t \in AppThreads :
        /\ apc[t] = "return"
        /\ Len(undrained[atopic[t]]) = MaxDeliveries
        /\ heap[amessages[t]][1].id < heap[amessages[t]][2].id

\* C4, as stated: whenever no thread is inside a section on the store, a
\* topic key exists in message_store if and only if a message has arrived
\* on the topic and no clearing read has drained it since.
KeyIffUndrained ==
    message_lock = NoThread
    => \A T \in Topics :
          (T \in DOMAIN message_store) <=> (undrained[T] # <<>>)

\* C4, amended: whenever no thread is inside a section on the store, the
\* sequence stored under a topic is the messages that arrived on it and that
\* no clearing read has drained, so that it is non-empty if and only if
\* there is such a message, and a topic with no key has none; the key of a
\* topic stays, with an empty sequence, after a clearing read, and a
\* clearing read of a topic that never received a message creates it.
StoredIffUndrained ==
    message_lock = NoThread
    => \A T \in Topics :
          /\ StoreSeq(T) = undrained[T]
          /\ T \notin DOMAIN message_store => undrained[T] = <<>>
          /\ cleared[T] => T \in DOMAIN message_store /\ StoreSeq(T) = <<>>

\* No thread is inside a section, one topic has an undrained message, and
\* another, on which no message ever arrived, has a key and an empty
\* sequence after a clearing read.
StoredIffUndrainedWitness ==
    /\ message_lock = NoThread
    /\ \E T \in Topics : undrained[T] # <<>> /\ T \in DOMAIN message_store
    /\ \E T \in Topics :
          /\ arrived[T] = <<>>
          /\ cleared[T]
          /\ T \in DOMAIN message_store

\* C10: at most one thread at a time is inside a section that reads or
\* changes message_store (the handler from its check to the end of its with
\* block, get_messages from its get to its return), and no message is
\* appended under a topic while a clearing get_messages of that topic is
\* between its read of the sequence and its reset of it.
StoreMutualExclusion ==
    /\ [](Cardinality({t \in AppThreads :
                          apc[t] \in {"get", "clear", "return"}})
            + (IF net.pc \in {"check", "lookup", "append", "exit"}
               THEN 1 ELSE 0) <= 1)
    /\ [][\A t \in AppThreads :
             apc[t] = "clear" => arrived'[atopic[t]] = arrived[atopic[t]]]_vars

\* A clearing get_messages is between its read and its reset while the
\* handler waits for the lock with a message for the same topic, and
\* another thread waits for the lock as well.
StoreMutualExclusionWitness ==
    \E t \in AppThreads :
        /\ apc[t] = "clear"
        /\ heap[amessages[t]] # <<>>
        /\ net.pc = "lock"
        /\ net.topic = atopic[t]
        /\ \E u \in AppThreads \ {t} : apc[u] = "lock"

(***************************************************************************)
(* Deliveries of every kind of payload, under SpecFeed.                    *)
(***************************************************************************)
\* C5, as stated: every _on_message call, whatever its decode steps do,
\* appends exactly one message under the delivered topic and returns, so
\* that with the handler idle every topic has as many messages appended as
\* it had deliveries; and where the text is no JSON the payload stored is
\* the text unchanged.
EveryDeliveryAppendsOne ==
    /\ net.pc = "idle" => \A T \in Topics : Len(arrived[T]) = handled[T]
    /\ \A raw \in RawPayloads :
          LET d == Utf8Decode(raw)
          IN  (d.ok /\ ~JsonLoads(d.text).ok)
              => Decodings[raw] = [ok |-> TRUE, payload |-> PyStr(d.text)]

(***************************************************************************)
(* The connection and publish, under SpecLink.                             *)
(***************************************************************************)
\* C6, as stated: after _on_connect has handled a connect-result, the
\* connection state is Connected if and only if the result code was 0,
\* whatever the state was before.
ConnectionStateReflectsResult ==
    last_connect # <<>> => (is_connected <=> last_connect[1].rc = 0)

\* C7, as stated: a publish call whose transport request was rejected or
\* raised shows its caller something (a return value, an error raised, an
\* error record) that a successful call does not show.
PublishFailureSurfaced ==
    last_pub.fate \in {"rejected", "raised"}
    => last_pub.view # PublishView("ok")

\* C9, as stated: the caller is past its connect step, at its publish loop,
\* only with the state Connected (a caller whose connect raised is not
\* there), and while no connect-result has been handled the state is not
\* Connected.
ConnectBlocksUntilConnected ==
    /\ mpc = "publish" => is_connected
    /\ last_connect = <<>> => ~is_connected

(***************************************************************************)
(* The round trip, under SpecTrip.                                         *)
(***************************************************************************)
\* C8, as stated: every message stored for a delivery of what publish
\* handed the transport for a dictionary has that dictionary as its
\* payload.
RoundTripEveryDict ==
    \A T \in Topics : \A i \in 1..Len(arrived[T]) :
        arrived[T][i].orig.t = "dict"
        => arrived[T][i].msg.payload = arrived[T][i].orig

\* C8, amended: for every dictionary P whose keys are strings and whose
\* values are strings, numbers, booleans or None, publish hands the
\* transport a text that _on_message decodes to P; the message stored for
\* its delivery has the payload P; a clearing get_messages of the topic
\* returns exactly the messages stored since the last one, and a
\* get_messages that follows it with no append in between returns the
\* empty sequence.
RoundTripFlatDict ==
    LET Flat(P) ==
            /\ P.t = "dict"
            /\ \A j \in 1..Len(P.e) :
                  IF j % 2 = 1 THEN P.e[j].t = "str"
                  ELSE P.e[j].t \in {"str", "int", "float", "True", "False",
                                     "None"}
        reader == AppOrder[Len(AppOrder)]
    IN  /\ \A P \in Published : Flat(P) => PublishTexts[P].ok
        /\ \A m \in wire :
              Flat(m.orig)
              => Decodings[m.payload] = [ok |-> TRUE, payload |-> m.orig]
        /\ \A T \in Topics : \A i \in 1..Len(arrived[T]) :
              Flat(arrived[T][i].orig)
              => arrived[T][i].msg.payload = arrived[T][i].orig
        /\ apc[reader] = "return"
           => /\ heap[amessages[reader]] = undrained[atopic[reader]]
              /\ cleared[atopic[reader]] => heap[amessages[reader]] = <<>>

\* A clearing get_messages is about to return exactly one message, stored
\* for the delivery of the sensor payload the driver published, with that
\* payload.
RoundTripFlatDictWitness ==
    LET reader == AppOrder[Len(AppOrder)]
        T == "sensors/climate/temperature"
    IN  /\ apc[reader] = "return"
        /\ aclear[reader]
        /\ atopic[reader] = T
        /\ Len(heap[amessages[reader]]) = 1
        /\ heap[amessages[reader]][1].payload = SensorPayload
        /\ arrived[T][Len(arrived[T])].orig = SensorPayload

(***************************************************************************)
(* Ownership of the stored sequences, under SpecStore.                     *)
(***************************************************************************)
\* C11, as stated: the sequence a get_messages call has returned is fixed
\* from its return on, whatever clear was: no step changes the contents of
\* a list a caller still holds from its last call.
ReturnedSequenceFixed ==
    [][\A t \in AppThreads :
          (aresult[t] # NoList /\ aresult'[t] # NoList)
          => heap'[aresult'[t]] = heap[aresult[t]]]_vars

(***************************************************************************)
(* The store's keys, under SpecKeys.                                       *)
(***************************************************************************)
\* C12: the entry of a key (its presence and the sequence stored under it)
\* changes only in a step of the handler's check or append for a message
\* delivered on literally that key, or in the reset of a clearing
\* get_messages called with literally that key; a step of a get_messages
\* called with clear=False changes no entry; and what a get_messages call
\* returns, for a wildcard filter as for any key, is only messages whose
\* delivered topic is literally its argument.
ExactKeyIsolation ==
    /\ [](\A t \in AppThreads :
             apc[t] = "return"
             => \A i \in 1..Len(heap[amessages[t]]) :
                   \E j \in 1..Len(arrived[atopic[t]]) :
                       arrived[atopic[t]][j].msg = heap[amessages[t]][i])
    /\ [][\A K \in StoreKeys :
             (\/ StoreSeq(K)' # StoreSeq(K)
              \/ (K \in DOMAIN message_store') # (K \in DOMAIN message_store))
             => \/ net.pc \in {"check", "append"} /\ net.topic = K
                                                  /\ net'.pc # net.pc
                \/ \E t \in AppThreads :
                      /\ apc[t] = "clear" /\ apc'[t] = "return"
                      /\ atopic[t] = K]_vars
    /\ [][\A t \in AppThreads :
             (apc'[t] # apc[t] /\ apc[t] # "idle" /\ ~aclear[t])
             => /\ DOMAIN message_store' = DOMAIN message_store
                /\ \A K \in StoreKeys : StoreSeq(K)' = StoreSeq(K)]_vars

\* A get_messages called with the filter sensors/climate/# is about to
\* return, empty-handed, while a message is stored under the topic
\* sensors/climate/temperature, which the filter matches, and another
\* topic holds a message too.
ExactKeyIsolationWitness ==
    \E t \in AppThreads :
        /\ apc[t] = "return"
        /\ atopic[t] \in Filters
        /\ aclear[t]
        /\ heap[amessages[t]] = <<>>
        /\ StoreSeq("sensors/climate/temperature") # <<>>
        /\ StoreSeq("system/status") # <<>>

(***************************************************************************)
(* Progress of the store, under FairDrain.                                 *)
(***************************************************************************)
\* C13: a clearing get_messages returns every message appended under its
\* topic before it took the lock and not returned by an earlier clearing
\* call, and every message appended under a topic is eventually returned by
\* a clearing get_messages.
AppendedIsDrained ==
    /\ [](\A t \in AppThreads :
             (apc[t] \in {"clear", "return"} /\ aclear[t])
             => heap[amessages[t]] = undrained[atopic[t]])
    /\ \A T \in Topics : \A k \in 1..MaxDeliveries :
          (Len(arrived[T]) >= k) ~> (Len(returned[T]) >= k)

\* A second clearing get_messages of a topic is about to return the
\* message that arrived after the first one returned its own.
AppendedIsDrainedWitness ==
    \E t \in AppThreads :
        /\ apc[t] = "return"
        /\ aclear[t]
        /\ Len(returned[atopic[t]]) >= 1
        /\ Len(heap[amessages[t]]) >= 1
        /\ net.pc = "idle"

\* C14: the lock is free whenever neither the handler nor a get_messages
\* call is in progress, every _on_message call made has returned when the
\* handler is idle (a call whose decoding raised as well), and under fair
\* scheduling every _on_message call and every get_messages call in
\* progress eventually completes.
CallsCompleteLockFreed ==
    /\ []((net.pc = "idle" /\ \A t \in AppThreads : apc[t] = "idle")
           => message_lock = NoThread)
    /\ [](net.pc = "idle"
           => handled["sensors/climate/temperature"] + handled["system/status"]
                 = deliveries)
    /\ (net.pc # "idle") ~> (net.pc = "idle")
    /\ \A t \in AppThreads : (apc[t] # "idle") ~> (apc[t] = "idle")

\* No call is in progress and the lock is free, after one delivery whose
\* decoding raised and one that appended, and after a clearing
\* get_messages that returned a message.
CallsCompleteLockFreedWitness ==
    /\ net.pc = "idle"
    /\ \A t \in AppThreads : apc[t] = "idle"
    /\ message_lock = NoThread
    /\ deliveries = MaxDeliveries
    /\ \E T \in Topics : handled[T] > Len(arrived[T])
    /\ \E T \in Topics : returned[T] # <<>>

(***************************************************************************)
(* The connect-result handler, under SpecLink.                             *)
(***************************************************************************)
\* C15: the subscribe requests _on_connect issues for a connect-result are,
\* for code 0, system/status and then system/config, each issued with the
\* state already Connected, on the first successful connect-result and on
\* every later one; for a non-zero code there are none.
AutoSubscribeOnSuccess ==
    LET wanted == <<"system/status", "system/config">>
        issued == [i \in 1..Len(subscribed) |-> subscribed[i].topic]
    IN  /\ last_connect = <<>> => subscribed = <<>> /\ net.pc # "subscribe"
        /\ last_connect # <<>> /\ last_connect[1].rc # 0
           => subscribed = <<>> /\ net.pc # "subscribe"
        /\ last_connect # <<>> /\ last_connect[1].rc = 0
           => /\ Len(issued) <= Len(wanted)
              /\ issued = SubSeq(wanted, 1, Len(issued))
              /\ net.pc # "subscribe" => issued = wanted
              /\ \A i \in 1..Len(subscribed) : subscribed[i].connected

\* _on_connect, handling a successful connect-result, has set the state
\* to Connected and issued its first request, for system/status, and not
\* yet its second.
AutoSubscribeOnSuccessWitness ==
    /\ last_connect # <<>>
    /\ last_connect[1].rc = 0
    /\ net.pc = "subscribe"
    /\ Len(subscribed) = 1
    /\ subscribed[1] = [topic |-> "system/status", connected |-> TRUE]

(***************************************************************************)
(* The connection state's writers, under SpecFrame.                        *)
(***************************************************************************)
\* C16: a step of _on_message (a delivery, decoded or not, and every step
\* to the handler's return), of publish (accepted, rejected or raising) or
\* of get_messages leaves is_connected as it is, and a step that changes
\* is_connected is _on_connect taking a connect-result.
ConnectionStateSingleWriter ==
    /\ [][(\/ deliveries' # deliveries
            \/ handled' # handled
            \/ (net.pc \in {"lock", "check", "lookup", "append", "exit"}
                /\ net' # net)
            \/ last_pub' # last_pub
            \/ wire' # wire
            \/ apc' # apc)
           => is_connected' = is_connected]_vars
    /\ [][is_connected' # is_connected
           => /\ net.pc = "idle"
              /\ last_connect' # last_connect
              /\ subscribed' = <<>>]_vars

\* With the state Connected, the handler has dropped a payload that is no
\* UTF-8, a publish was rejected, and a get_messages call is in progress.
ConnectionStateSingleWriterWitness ==
    /\ is_connected
    /\ \E T \in Topics : handled[T] > Len(arrived[T])
    /\ last_pub.fate = "rejected"
    /\ \E t \in AppThreads : apc[t] = "return"

\* C17, as stated: _on_connect treats code 0 as success, reports codes 1 to
\* 5 as incorrect protocol version, invalid client identifier, server
\* unavailable, bad username or password and not authorized, and reports
\* every other code as an unknown reason that carries the code, so that the
\* reports of two such codes differ.
ConnectResultTranslated ==
    last_connect # <<>>
    => LET rc == last_connect[1].rc
           log == last_connect[1].log
       IN  /\ rc = 0 => log = "info: connected" /\ is_connected
           /\ rc = 1 => log = "error: incorrect protocol version"
           /\ rc = 2 => log = "error: invalid client identifier"
           /\ rc = 3 => log = "error: server unavailable"
           /\ rc = 4 => log = "error: bad username or password"
           /\ rc = 5 => log = "error: not authorized"
           /\ rc \notin 0..5
              => \A other \in ResultCodes \ (0..5) :
                    other # rc => ConnectLog(other) # log

\* C18: is_connected is False until a connect-result is handled; from
\* False it becomes True in exactly the steps in which _on_connect takes a
\* connect-result with code 0; and once True it stays True, so that it is
\* True if and only if a connect-result with code 0 has been handled.
IsConnectedMonotonic ==
    /\ [](last_connect = <<>> => ~is_connected)
    /\ [][is_connected => is_connected']_vars
    /\ [][~is_connected
           => (is_connected' <=> /\ net.pc = "idle"
                                 /\ net'.pc = "subscribe"
                                 /\ last_connect' # <<>>
                                 /\ last_connect'[1].rc = 0)]_vars

\* The state is Connected after a connect-result with code 0, a lost
\* connection and a connect-result that failed.
IsConnectedMonotonicWitness ==
    /\ is_connected
    /\ ~session
    /\ last_connect # <<>>
    /\ last_connect[1].rc # 0

============================================================================
